---- MODULE Spec2Model ----
(***************************************************************************)
(* Spotify Playlist Finder (src/app.py): URL canonicalisation, the         *)
(* playlist filter, the query builder, the paged Google CSE request and    *)
(* the merge sweep of run_google_only.                                     *)
(*                                                                         *)
(* Python strings are TLA+ strings, handled character by character with    *)
(* Len, SubSeq and \o.  A Python dict is a function whose DOMAIN is its    *)
(* set of keys.  Python's None is the value None below.                    *)
(***************************************************************************)
EXTENDS Integers, Sequences, FiniteSets, TLC

VARIABLES
    \* canonical_spotify_url applied once and twice to one input
    url_in, canon1, canon2, upc,
    \* only_playlist_results applied to one batch of raw records
    batch, fres, fpc,
    \* build_queries applied to one term list
    qterms, qout, qpc,
    \* run_google_only: arguments, locals, position in the three loops
    creds, terms, max_results, queries, qi, mi, fi,
    merged, seen_urls, debug_meta, filtered, k, result, pc,
    \* google_cse_request: arguments, locals, returned tuple
    q, wanted, mode, dupe_filter, out, start, total, last_err, ret,
    \* the search provider, and what has been asked of it so far
    live, steady, reqlog, fed

urlVars    == <<url_in, canon1, canon2, upc>>
filterVars == <<batch, fres, fpc>>
queryVars  == <<qterms, qout, qpc>>
sweepVars  == <<terms, max_results, queries, qi, mi, fi,
                merged, seen_urls, debug_meta, filtered, k, result, fed>>
callVars   == <<q, wanted, mode, dupe_filter, out, start, total, last_err, ret>>
envVars    == <<creds, live, steady, reqlog>>
vars       == <<urlVars, filterVars, queryVars, sweepVars, callVars, envVars, pc>>

-----------------------------------------------------------------------------
(* Bounds of the model.                                                     *)

MaxChunks  == 4   \* pieces concatenated into one input URL
MaxBatch   == 3   \* raw records in one only_playlist_results batch
MaxTerms   == 6   \* terms handed to build_queries
MaxResults == 3   \* largest max_results tried
MaxWanted  == 12  \* largest `wanted` tried on a single google_cse_request
MaxLive    == 3   \* provider responses chosen freely before it settles

-----------------------------------------------------------------------------
(* Python values and string methods.                                        *)

None == "<None>"

\* a tuple or record that does not exist yet
Pending == [pending |-> TRUE]

\* bool(v) for the values that occur: None and strings
Truthy(v) == v # None /\ v # ""

\* a or b
Or(a, b) == IF Truthy(a) THEN a ELSE b

\* d.get(key)
Get(d, key) == IF key \in DOMAIN d THEN d[key] ELSE None

Min(a, b) == IF a <= b THEN a ELSE b

Ch(s, i)   == SubSeq(s, i, i)
\* s[:n] and s[n:]
Take(s, n) == SubSeq(s, 1, Min(n, Len(s)))
Drop(s, n) == SubSeq(s, Min(n, Len(s)) + 1, Len(s))

\* s.find(p, from) with 1-based positions; 0 when p does not occur
Find(s, p, from) ==
    LET I == {i \in from..(Len(s) - Len(p) + 1) : SubSeq(s, i, i + Len(p) - 1) = p}
    IN  IF I = {} THEN 0 ELSE CHOOSE i \in I : \A j \in I : i <= j

\* p in s
Contains(s, p) == Find(s, p, 1) # 0

StartsWith(s, p) == Len(s) >= Len(p) /\ Take(s, Len(p)) = p
EndsWith(s, p)   == Len(s) >= Len(p) /\ Drop(s, Len(s) - Len(p)) = p

\* s.rstrip(cs) and s.lstrip(cs), cs a set of characters
RStrip(s, cs) ==
    LET N == {n \in 0..Len(s) : \A i \in (n + 1)..Len(s) : Ch(s, i) \in cs}
    IN  Take(s, CHOOSE n \in N : \A m \in N : n <= m)
LStrip(s, cs) ==
    LET N == {n \in 0..Len(s) : \A i \in 1..n : Ch(s, i) \in cs}
    IN  Drop(s, CHOOSE n \in N : \A m \in N : n >= m)

Whitespace == {" ", "\t"}

\* s.strip()
Strip(s) == LStrip(RStrip(s, Whitespace), Whitespace)

\* s.split(c, 1)[0] and the part after the first c ("" when c is absent)
Before(s, c) == IF Contains(s, c) THEN Take(s, Find(s, c, 1) - 1) ELSE s
After(s, c)  == IF Contains(s, c) THEN Drop(s, Find(s, c, 1) + Len(c) - 1) ELSE ""

\* s.replace(p, "", 1)
RemoveFirst(s, p) ==
    IF Contains(s, p)
    THEN Take(s, Find(s, p, 1) - 1) \o Drop(s, Find(s, p, 1) + Len(p) - 1)
    ELSE s

\* s.replace(a, b) for one-character a
RECURSIVE ReplaceAll(_, _, _)
ReplaceAll(s, a, b) ==
    IF s = "" THEN ""
    ELSE (IF Ch(s, 1) = a THEN b ELSE Ch(s, 1)) \o ReplaceAll(Drop(s, 1), a, b)

-----------------------------------------------------------------------------
(* urllib.parse: urlparse, parse_qs, unquote.                               *)

Letters == {"a","b","c","d","e","f","g","h","i","j","k","l","m",
            "n","o","p","q","r","s","t","u","v","w","x","y","z",
            "A","B","C","D","E","F","G","H","I","J","K","L","M",
            "N","O","P","Q","R","S","T","U","V","W","X","Y","Z"}
Digits  == {"0","1","2","3","4","5","6","7","8","9"}
scheme_chars == Letters \cup Digits \cup {"+", "-", "."}

\* the percent escapes that occur in the inputs
PctDecode(h) ==
    CASE h = "3A" -> ":"  [] h = "2F" -> "/"  [] h = "3F" -> "?"
      [] h = "3D" -> "="  [] h = "26" -> "&"  [] h = "25" -> "%"
PctCodes == {"3A", "2F", "3F", "3D", "26", "25"}

RECURSIVE unquote(_)
unquote(s) ==
    IF s = "" THEN ""
    ELSE IF Ch(s, 1) = "%" /\ Len(s) >= 3 /\ SubSeq(s, 2, 3) \in PctCodes
         THEN PctDecode(SubSeq(s, 2, 3)) \o unquote(Drop(s, 3))
         ELSE Ch(s, 1) \o unquote(Drop(s, 1))

\* urlparse(u): [raises |-> TRUE] for ValueError("Invalid IPv6 URL"), else
\* the netloc, path and query components (scheme, params and fragment are
\* never read by the program; the inputs hold no ';').  Each step of urlsplit
\* hands its result to the next one.
parse_result(netloc, url3) ==
    [raises |-> FALSE, netloc |-> netloc,
     path |-> Before(url3, "?"), query |-> After(url3, "?")]

\* the bracket check on the netloc, then the fragment is cut off
split_fragment(netloc, url2) ==
    IF Contains(netloc, "[") # Contains(netloc, "]")
    THEN [raises |-> TRUE]
    ELSE parse_result(netloc, Before(url2, "#"))

\* _splitnetloc(url, 2): the netloc ends before the first of / ? #
netloc_end(url1) ==
    LET D == {j \in 3..Len(url1) : Ch(url1, j) \in {"/", "?", "#"}}
    IN  IF D = {} THEN Len(url1) + 1 ELSE CHOOSE j \in D : \A m \in D : j <= m

split_netloc(url1) ==
    IF Take(url1, 2) = "//"
    THEN split_fragment(SubSeq(url1, 3, netloc_end(url1) - 1),
                        Drop(url1, netloc_end(url1) - 1))
    ELSE split_fragment("", url1)

\* the text before the first ':' is a scheme
has_scheme(url0) ==
    /\ Find(url0, ":", 1) > 1
    /\ Ch(url0, 1) \in Letters
    /\ \A j \in 1..(Find(url0, ":", 1) - 1) : Ch(url0, j) \in scheme_chars

split_scheme(url0) ==
    split_netloc(IF has_scheme(url0) THEN Drop(url0, Find(url0, ":", 1)) ELSE url0)

urlparse(u) == split_scheme(LStrip(u, {" "}))

\* parse_qs(query)[key][0] when key is present with a non-blank value,
\* None otherwise
RECURSIVE qs_first(_, _)
qs_first(query, key) ==
    IF query = "" THEN None
    ELSE LET name_value == Before(query, "&")
             rest       == After(query, "&")
             name       == unquote(ReplaceAll(Before(name_value, "="), "+", " "))
             value      == unquote(ReplaceAll(After(name_value, "="), "+", " "))
         IN  IF Contains(name_value, "=") /\ After(name_value, "=") # "" /\ name = key
             THEN value
             ELSE qs_first(rest, key)

-----------------------------------------------------------------------------
(* URL normalisation and the playlist filter.                               *)

SPOTIFY_HOST   == "open.spotify.com"
PLAYLIST_TOKEN == "/playlist"

\* for key in ("url", "q", "u"): the first value found, else u
first_param(u, by_url, by_q, by_u) ==
    IF by_url # None THEN by_url
    ELSE IF by_q # None THEN by_q
    ELSE IF by_u # None THEN by_u
    ELSE u

\* lines 45-51, p the parse of u
unwrap_redirect(u, p) ==
    IF p.raises THEN u
    ELSE IF EndsWith(p.netloc, "google.com") /\ StartsWith(p.path, "/url")
    THEN first_param(u, qs_first(p.query, "url"), qs_first(p.query, "q"),
                     qs_first(p.query, "u"))
    ELSE u

normalize_url(u) == IF u = "" THEN "" ELSE unwrap_redirect(u, urlparse(u))

\* lines 59-65, p the parse of the normalised u
canonical_parsed(u, p) ==
    IF p.raises THEN u
    ELSE IF ~Contains(p.netloc, SPOTIFY_HOST) THEN u
    ELSE "https://" \o SPOTIFY_HOST
         \o RStrip(IF StartsWith(p.path, "/embed/")
                   THEN RemoveFirst(p.path, "/embed") ELSE p.path, {"/"})

canonical_normalized(u) == canonical_parsed(u, urlparse(u))

canonical_spotify_url(u0) == canonical_normalized(normalize_url(u0))

\* lines 73-88 for one record r whose canonical url is `url`:
\* raises, or skip, or the record to emit
filter_parsed(r, url, p) ==
    IF p.raises THEN [raises |-> TRUE, skip |-> TRUE]
    ELSE IF ~Contains(p.netloc, SPOTIFY_HOST) \/ ~Contains(p.path, PLAYLIST_TOKEN)
    THEN [raises |-> FALSE, skip |-> TRUE]
    ELSE [raises |-> FALSE, skip |-> FALSE,
          rec |-> [title   |-> Or(Or(Or(Get(r, "title"), Get(r, "name")), ""), url),
                   url     |-> Before(url, "?"),
                   snippet |-> Or(Or(Get(r, "snippet"), Get(r, "body")), "")]]

filter_canonical(r, url) ==
    IF ~Truthy(url) THEN [raises |-> FALSE, skip |-> TRUE]
    ELSE filter_parsed(r, url, urlparse(url))

filter_record(r) ==
    filter_canonical(r, canonical_spotify_url(
        Or(Or(Or(Get(r, "url"), Get(r, "link")), Get(r, "href")), "")))

\* only_playlist_results(results): [raises |-> TRUE] when an exception
\* escapes (urlparse at line 80 is outside any try), else the out list
RECURSIVE opr_loop(_, _, _, _)
opr_step(results, i, seen, acc, fr) ==
    IF fr.raises THEN [raises |-> TRUE, out |-> <<>>]
    ELSE IF fr.skip THEN opr_loop(results, i + 1, seen, acc)
    ELSE IF fr.rec.url \in seen THEN opr_loop(results, i + 1, seen, acc)
    ELSE opr_loop(results, i + 1, seen \cup {fr.rec.url}, Append(acc, fr.rec))

opr_loop(results, i, seen, acc) ==
    IF i > Len(results) THEN [raises |-> FALSE, out |-> acc]
    ELSE opr_step(results, i, seen, acc, filter_record(results[i]))

only_playlist_results(results) == opr_loop(results, 1, {}, <<>>)

-----------------------------------------------------------------------------
(* Google CSE helpers: the query builder.                                   *)

PairCap == 10

\* " ".join(ss)
RECURSIVE JoinSpace(_)
JoinSpace(ss) ==
    IF ss = <<>> THEN ""
    ELSE IF Len(ss) = 1 THEN ss[1]
    ELSE ss[1] \o " " \o JoinSpace(Tail(ss))

\* list(combinations(t, 2)), from the pair (t[i], t[j]) on
RECURSIVE combinations2(_, _, _)
combinations2(t, i, j) ==
    IF i >= Len(t) THEN <<>>
    ELSE IF j > Len(t) THEN combinations2(t, i + 1, i + 2)
    ELSE <<<<t[i], t[j]>>>> \o combinations2(t, i, j + 1)

\* de-dup while preserving order
RECURSIVE uniq(_, _)
uniq(qs, seen) ==
    IF qs = <<>> THEN <<>>
    ELSE IF Head(qs) \in seen THEN uniq(Tail(qs), seen)
    ELSE <<Head(qs)>> \o uniq(Tail(qs), seen \cup {Head(qs)})

\* t = [s.strip() for s in terms if s and s.strip()]
kept_terms(ts) ==
    LET keep == SelectSeq(ts, LAMBDA s : Truthy(s) /\ Strip(s) # "")
    IN  [i \in 1..Len(keep) |-> Strip(keep[i])]

candidate_queries(ts) ==
    LET t          == kept_terms(ts)
        quoted_all == JoinSpace([i \in 1..Len(t) |-> "\"" \o t[i] \o "\""])
        base_site  == "site:" \o SPOTIFY_HOST
        pairs      == combinations2(t, 1, 2)
    IN  <<Strip(base_site \o " inurl:playlist " \o quoted_all),
          Strip(base_site \o " intitle:playlist " \o quoted_all),
          Strip(base_site \o " " \o quoted_all \o " \"playlist\"")>>
        \o (IF Len(t) >= 3
            THEN [i \in 1..Min(PairCap, Len(pairs)) |->
                     base_site \o " inurl:playlist \"" \o pairs[i][1]
                               \o "\" \"" \o pairs[i][2] \o "\""]
            ELSE <<>>)

build_queries_keeping_duplicates(ts) == candidate_queries(ts)

build_queries(ts) == uniq(candidate_queries(ts), {})

\* google_cse_request: page size, highest start offset, and the arguments
\* run_google_only passes
PageSize    == 10
StartMax    == 91
SweepWanted == 100
Modes       == <<"siteSearch", "as_sitesearch", "none">>
Filters     == <<1, 0>>
MissingCreds == "Missing GOOGLE_API_KEY or GOOGLE_CSE_ID"

while_cond_one_page_more(out_, start_, wanted_) ==
    Len(out_) < wanted_ /\ start_ <= StartMax + PageSize

\* while len(out) < wanted and start <= 91
while_cond(out_, start_, wanted_) == Len(out_) < wanted_ /\ start_ <= StartMax

\* the request parameters of one page
page_params(q_, wanted_, mode_, filt_, out_, start_) ==
    LET base == [q |-> q_, num |-> Min(PageSize, wanted_ - Len(out_)),
                 start |-> start_, filter |-> filt_]
    IN  IF mode_ = "siteSearch"
        THEN base @@ [siteSearch |-> SPOTIFY_HOST, siteSearchFilter |-> "i"]
        ELSE IF mode_ = "as_sitesearch"
        THEN base @@ [as_sitesearch |-> SPOTIFY_HOST]
        ELSE base

\* total after a page: the first totalResults reported
page_total(total_, data) ==
    LET si == IF "searchInformation" \in DOMAIN data
              THEN data["searchInformation"] ELSE <<>>
    IN  IF total_ = None /\ "totalResults" \in DOMAIN si
        THEN si["totalResults"] ELSE total_

\* items = data.get("items", [])
page_items(data) == IF "items" \in DOMAIN data THEN data["items"] ELSE <<>>

\* out after the items of a page are appended
page_out(out_, items) ==
    out_ \o [i \in 1..Len(items) |->
                [title |-> Get(items[i], "title"), url |-> Get(items[i], "link"),
                 snippet |-> Get(items[i], "snippet")]]

cse_return_error_dropped(q_, wanted_, mode_, filt_, out_, total_, err_) ==
    [raw  |-> SubSeq(out_, 1, Min(wanted_, Len(out_))),
     meta |-> [query |-> q_, mode |-> mode_, dupe_filter |-> filt_,
               totalResults |-> total_, returned |-> Len(out_), error |-> None]]

\* the tuple google_cse_request returns after paging
cse_return(q_, wanted_, mode_, filt_, out_, total_, err_) ==
    [raw  |-> SubSeq(out_, 1, Min(wanted_, Len(out_))),
     meta |-> [query |-> q_, mode |-> mode_, dupe_filter |-> filt_,
               totalResults |-> total_, returned |-> Len(out_), error |-> err_]]

-----------------------------------------------------------------------------
(* Inputs.                                                                  *)

\* all sequences of at most n elements of S
RECURSIVE SeqsUpTo(_, _)
SeqsUpTo(S, n) ==
    IF n = 0 THEN {<<>>}
    ELSE LET shorter == SeqsUpTo(S, n - 1)
         IN  shorter \cup {Append(s, x) : s \in shorter, x \in S}

RECURSIVE Concat(_)
Concat(ss) == IF ss = <<>> THEN "" ELSE Head(ss) \o Concat(Tail(ss))

\* input URLs: up to MaxChunks of these pieces, concatenated
UrlChunks ==
    {"https://open.spotify.com", "https://www.google.com/url?q=",
     "/embed", "/playlist/X", "/", "?si=1", "https://example.com",
     "http://[", "https%3A%2F%2Fopen.spotify.com"}

UrlInputs == {Concat(ss) : ss \in SeqsUpTo(UrlChunks, MaxChunks)}

\* raw result records, under the field names the filter accepts
RawPool ==
    {[url |-> "https://open.spotify.com/playlist/X?si=1", title |-> "Mix"],
     [link |-> "https://open.spotify.com/embed/playlist/X/", name |-> "Embed"],
     [href |-> "https://www.google.com/url?q=https://open.spotify.com/playlist/Y&sa=U",
      body |-> "b"],
     [url |-> "https://example.com/playlist/X", title |-> "Other"],
     [url |-> None, link |-> "https://open.spotify.com/album/Q", snippet |-> "s"],
     [title |-> "No url"],
     [url |-> "", title |-> "Empty url"],
     [url |-> "foo", title |-> "Not a url"],
     [url |-> "http://[open.spotify.com/playlist/Z", title |-> "Unparsable"]}

BatchInputs == SeqsUpTo(RawPool, MaxBatch)

\* term lists: the i-th field holds its placeholder name (line 226), a name
\* shared with other fields, the shared name with blanks around it, or nothing
placeholders == <<"Kanye", "Jamie XX", "Deki Alem", "Favourite",
                  "CASisDEAD", "Capricorn", "Starburster", "Eusexua">>
TermChoices(i) == {placeholders[i], "A", " A ", ""}

RECURSIVE TermLists(_)
TermLists(n) ==
    IF n = 0 THEN {<<>>}
    ELSE {Append(ts, x) : ts \in TermLists(n - 1), x \in TermChoices(n)}

TermInputs == UNION {TermLists(n) : n \in 0..MaxTerms}

\* what the provider can answer to one page request: an exception inside the
\* try block (network error, non-2xx status, undecodable body), or a decoded
\* JSON value
ItemX      == [title |-> "Mix", link |-> "https://open.spotify.com/playlist/X?si=1",
               snippet |-> "s"]
ItemXEmbed == [title |-> "Embed", link |-> "https://open.spotify.com/embed/playlist/X/"]
ItemY      == [link |-> "https://www.google.com/url?q=https://open.spotify.com/playlist/Y&sa=U",
               snippet |-> "y"]
ItemOther  == [title |-> "Other", link |-> "https://example.com/playlist/X"]
ItemBad    == [title |-> "Unparsable", link |-> "http://[open.spotify.com/playlist/Z"]

RespFail   == [kind |-> "exception", msg |-> "Client error '429 Too Many Requests'"]
RespNull   == [kind |-> "json", dict |-> FALSE, truthy |-> FALSE]
RespList   == [kind |-> "json", dict |-> FALSE, truthy |-> TRUE]
RespEmpty  == [kind |-> "json", dict |-> TRUE, truthy |-> TRUE,
               data |-> [searchInformation |-> [totalResults |-> "0"]]]
RespOne    == [kind |-> "json", dict |-> TRUE, truthy |-> TRUE,
               data |-> [searchInformation |-> [totalResults |-> "2"],
                         items |-> <<ItemX>>]]
RespThree  == [kind |-> "json", dict |-> TRUE, truthy |-> TRUE,
               data |-> [items |-> <<ItemXEmbed, ItemY, ItemOther>>]]
RespBadUrl == [kind |-> "json", dict |-> TRUE, truthy |-> TRUE,
               data |-> [items |-> <<ItemBad>>]]

Responses == {RespFail, RespNull, RespList, RespEmpty, RespOne, RespThree, RespBadUrl}

\* term lists and max_results handed to run_google_only
SweepTerms == {<<"Kanye", " ", "Runaway">>}

-----------------------------------------------------------------------------
(* States in which a part of the program is not running.                    *)

IdleUrl    == url_in = "" /\ canon1 = None /\ canon2 = None /\ upc = "idle"
IdleFilter == batch = <<>> /\ fres = Pending /\ fpc = "idle"
IdleQuery  == qterms = <<>> /\ qout = <<>> /\ qpc = "idle"
IdleSweep  ==
    /\ terms = <<>> /\ max_results = 0 /\ queries = <<>>
    /\ qi = 1 /\ mi = 1 /\ fi = 1
    /\ merged = <<>> /\ seen_urls = {} /\ debug_meta = <<>>
    /\ filtered = <<>> /\ k = 1 /\ result = <<>> /\ fed = <<>>
IdleCall   ==
    /\ q = "" /\ wanted = 0 /\ mode = "" /\ dupe_filter = 0
    /\ out = <<>> /\ start = 1 /\ total = None /\ last_err = None /\ ret = Pending
IdleEnv    == creds = FALSE /\ live = 0 /\ steady = Pending /\ reqlog = <<>>

-----------------------------------------------------------------------------
(* canonical_spotify_url applied to an input, then to its own result.       *)

InitUrl ==
    /\ url_in \in UrlInputs /\ canon1 = None /\ canon2 = None /\ upc = "input"
    /\ IdleFilter /\ IdleQuery /\ IdleSweep /\ IdleCall /\ IdleEnv /\ pc = "idle"

Canonicalize ==
    /\ upc = "input"
    /\ canon1' = canonical_spotify_url(url_in)
    /\ upc' = "once"
    /\ UNCHANGED <<url_in, canon2, filterVars, queryVars, sweepVars, callVars, envVars, pc>>

Recanonicalize ==
    /\ upc = "once"
    /\ canon2' = canonical_spotify_url(canon1)
    /\ upc' = "twice"
    /\ UNCHANGED <<url_in, canon1, filterVars, queryVars, sweepVars, callVars, envVars, pc>>

NextUrl == Canonicalize \/ Recanonicalize
SpecUrl == InitUrl /\ [][NextUrl]_vars

-----------------------------------------------------------------------------
(* only_playlist_results applied to a batch.                                *)

InitFilter ==
    /\ batch \in BatchInputs /\ fres = Pending /\ fpc = "input"
    /\ IdleUrl /\ IdleQuery /\ IdleSweep /\ IdleCall /\ IdleEnv /\ pc = "idle"

Filter ==
    /\ fpc = "input"
    /\ fres' = only_playlist_results(batch)
    /\ fpc' = "done"
    /\ UNCHANGED <<batch, urlVars, queryVars, sweepVars, callVars, envVars, pc>>

NextFilter == Filter
SpecFilter == InitFilter /\ [][NextFilter]_vars

-----------------------------------------------------------------------------
(* build_queries applied to a term list.                                    *)

InitQueries ==
    /\ qterms \in TermInputs /\ qout = <<>> /\ qpc = "input"
    /\ IdleUrl /\ IdleFilter /\ IdleSweep /\ IdleCall /\ IdleEnv /\ pc = "idle"

BuildQueries ==
    /\ qpc = "input"
    /\ qout' = build_queries(qterms)
    /\ qpc' = "built"
    /\ UNCHANGED <<qterms, urlVars, filterVars, sweepVars, callVars, envVars, pc>>

NextQueries == BuildQueries
SpecQueries == InitQueries /\ [][NextQueries]_vars

-----------------------------------------------------------------------------
(* The search provider: its first `live` answers are arbitrary, after that  *)
(* it keeps giving the answer `steady`.                                     *)

Answers(r) ==
    \/ live > 0 /\ r \in Responses /\ live' = live - 1
    \/ live = 0 /\ r = steady /\ live' = live

\* the page request google_cse_request is about to send, with its answer
Logged(r, out_) ==
    reqlog' = Append(reqlog,
        [attempt |-> Len(debug_meta) + 1,
         params |-> page_params(q, wanted, mode, dupe_filter, out, start),
         resp |-> r, collected |-> Len(out_)])

-----------------------------------------------------------------------------
(* google_cse_request(q, wanted, mode, dupe_filter).                        *)

\* entry: credentials check, locals, first evaluation of the loop condition
google_cse_request(q_, wanted_, mode_, filt_) ==
    /\ q' = q_ /\ wanted' = wanted_ /\ mode' = mode_ /\ dupe_filter' = filt_
    /\ out' = <<>> /\ start' = 1 /\ total' = None /\ last_err' = None
    /\ IF ~creds
       THEN /\ ret' = [raw |-> <<>>, meta |-> [error |-> MissingCreds]]
            /\ pc' = "returned"
       ELSE IF while_cond(<<>>, 1, wanted_)
       THEN ret' = Pending /\ pc' = "paging"
       ELSE /\ ret' = cse_return(q_, wanted_, mode_, filt_, <<>>, None, None)
            /\ pc' = "returned"
    /\ UNCHANGED <<creds, live, steady, reqlog>>

\* a page whose request, status check or JSON decoding raises: break
PageException ==
    /\ pc = "paging"
    /\ \E r \in Responses :
        /\ Answers(r)
        /\ r.kind = "exception"
        /\ Logged(r, out)
        /\ last_err' = r.msg
        /\ ret' = cse_return(q, wanted, mode, dupe_filter, out, total, r.msg)
    /\ pc' = "returned"
    /\ UNCHANGED <<q, wanted, mode, dupe_filter, out, start, total, creds, steady>>
    /\ UNCHANGED <<urlVars, filterVars, queryVars, sweepVars>>

\* a page whose JSON is a non-empty value that is not an object:
\* (data or {}).get raises AttributeError outside the try block
PageMalformed ==
    /\ pc = "paging"
    /\ \E r \in Responses :
        /\ Answers(r)
        /\ r.kind = "json" /\ ~r.dict /\ r.truthy
        /\ Logged(r, out)
    /\ pc' = "raised"
    /\ UNCHANGED <<q, wanted, mode, dupe_filter, out, start, total, last_err, ret,
                   creds, steady>>
    /\ UNCHANGED <<urlVars, filterVars, queryVars, sweepVars>>

\* a page that decodes to an object (or to an empty non-object): collect its
\* items, stop on an empty page, else advance start and test the loop again
PageItems ==
    /\ pc = "paging"
    /\ \E r \in Responses :
        /\ Answers(r)
        /\ r.kind = "json" /\ (r.dict \/ ~r.truthy)
        /\ LET data   == IF r.dict THEN r.data ELSE <<>>
               total1 == page_total(total, data)
               items  == IF r.dict THEN page_items(data) ELSE <<>>
               out1   == page_out(out, items)
               start1 == IF items = <<>> THEN start ELSE start + PageSize
           IN  /\ Logged(r, out1)
               /\ total' = total1 /\ out' = out1 /\ start' = start1
               /\ IF items # <<>> /\ while_cond(out1, start1, wanted)
                  THEN ret' = ret /\ pc' = "paging"
                  ELSE /\ ret' = cse_return(q, wanted, mode, dupe_filter,
                                            out1, total1, last_err)
                       /\ pc' = "returned"
    /\ UNCHANGED <<q, wanted, mode, dupe_filter, last_err, creds, steady>>
    /\ UNCHANGED <<urlVars, filterVars, queryVars, sweepVars>>

-----------------------------------------------------------------------------
(* One google_cse_request call on its own.                                  *)

InitPaging ==
    /\ creds \in BOOLEAN /\ live = MaxLive /\ steady \in {RespFail, RespEmpty, RespOne}
    /\ reqlog = <<>> /\ pc = "call"
    /\ IdleUrl /\ IdleFilter /\ IdleQuery /\ IdleSweep /\ IdleCall

Call ==
    /\ pc = "call"
    /\ \E w \in 0..MaxWanted, m \in 1..Len(Modes), f \in 1..Len(Filters) :
        google_cse_request("site:open.spotify.com inurl:playlist \"Kanye\"",
                           w, Modes[m], Filters[f])
    /\ UNCHANGED <<urlVars, filterVars, queryVars, sweepVars>>

NextPaging == Call \/ PageException \/ PageMalformed \/ PageItems
SpecPaging == InitPaging /\ [][NextPaging]_vars
\* every request is answered or times out, so a pending page step is taken
FairPaging == SpecPaging /\ WF_vars(NextPaging)

-----------------------------------------------------------------------------
(* run_google_only(terms, max_results).                                     *)

attempt_failed_ignored(meta) == FALSE

\* line 183: if meta.get("error")
attempt_failed(meta) == Truthy(Get(meta, "error"))

already_seen_ignored(key, seen) == FALSE

\* line 187: if key in seen_urls
already_seen(key, seen) == key \in seen

\* leave the innermost loop body: next filter value, mode or query, or the
\* final return merged[:max_results]
Advance(merged_) ==
    IF fi < Len(Filters)
    THEN fi' = fi + 1 /\ UNCHANGED <<qi, mi, result>> /\ pc' = "attempt"
    ELSE IF mi < Len(Modes)
    THEN fi' = 1 /\ mi' = mi + 1 /\ UNCHANGED <<qi, result>> /\ pc' = "attempt"
    ELSE IF qi < Len(queries)
    THEN fi' = 1 /\ mi' = 1 /\ qi' = qi + 1 /\ UNCHANGED result /\ pc' = "attempt"
    ELSE /\ UNCHANGED <<qi, mi, fi>>
         /\ result' = SubSeq(merged_, 1, Min(max_results, Len(merged_)))
         /\ pc' = "done"

InitSweep ==
    /\ terms \in SweepTerms /\ max_results \in 0..MaxResults /\ queries = <<>>
    /\ qi = 1 /\ mi = 1 /\ fi = 1
    /\ merged = <<>> /\ seen_urls = {} /\ debug_meta = <<>>
    /\ filtered = <<>> /\ k = 1 /\ result = <<>> /\ fed = <<>>
    /\ creds \in BOOLEAN /\ live = MaxLive /\ steady \in {RespFail, RespEmpty}
    /\ reqlog = <<>> /\ pc = "start"
    /\ IdleUrl /\ IdleFilter /\ IdleQuery /\ IdleCall

\* lines 174-177
run_google_only ==
    /\ pc = "start"
    /\ queries' = build_queries(terms)
    /\ merged' = <<>> /\ seen_urls' = {} /\ debug_meta' = <<>>
    /\ qi' = 1 /\ mi' = 1 /\ fi' = 1
    /\ pc' = "attempt"
    /\ UNCHANGED <<terms, max_results, filtered, k, result, fed>>
    /\ UNCHANGED <<urlVars, filterVars, queryVars, callVars, envVars>>

\* line 181: the call of google_cse_request
Attempt ==
    /\ pc = "attempt"
    /\ google_cse_request(queries[qi], SweepWanted, Modes[mi], Filters[fi])
    /\ UNCHANGED <<urlVars, filterVars, queryVars, sweepVars>>

\* lines 185: the filtered records of a successful attempt, f the outcome of
\* only_playlist_results(raw)
Filtered(f) ==
    IF f.raises
    THEN pc' = "raised" /\ UNCHANGED <<filtered, k, qi, mi, fi, result>>
    ELSE /\ filtered' = f.out /\ k' = 1
         /\ IF f.out = <<>>
            THEN Advance(merged)
            ELSE pc' = "merging" /\ UNCHANGED <<qi, mi, fi, result>>

\* lines 182-185: record the diagnostics, skip a failed attempt, filter
Deliver ==
    /\ pc = "returned"
    /\ debug_meta' = Append(debug_meta, ret.meta)
    /\ IF attempt_failed(ret.meta)
       THEN /\ Advance(merged)
            /\ UNCHANGED <<filtered, k>>
       ELSE Filtered(only_playlist_results(ret.raw))
    /\ UNCHANGED <<terms, max_results, queries, merged, seen_urls, fed>>
    /\ UNCHANGED <<urlVars, filterVars, queryVars, callVars, envVars>>

\* lines 185-192: one iteration of the loop over the filtered records
MergeStep ==
    /\ pc = "merging"
    /\ LET r   == filtered[k]
           key == r.url
       IN  /\ fed' = Append(fed, [rec |-> r, attempt |-> Len(debug_meta)])
           /\ IF already_seen(key, seen_urls)
              THEN /\ UNCHANGED <<merged, seen_urls>>
                   /\ IF k < Len(filtered)
                      THEN k' = k + 1 /\ UNCHANGED <<qi, mi, fi, result, pc>>
                      ELSE k' = k /\ Advance(merged)
              ELSE /\ merged' = Append(merged, r)
                   /\ seen_urls' = seen_urls \cup {key}
                   /\ IF Len(merged') >= max_results
                      THEN /\ result' = merged' /\ pc' = "done"
                           /\ UNCHANGED <<k, qi, mi, fi>>
                      ELSE IF k < Len(filtered)
                      THEN k' = k + 1 /\ UNCHANGED <<qi, mi, fi, result, pc>>
                      ELSE k' = k /\ Advance(merged')
    /\ UNCHANGED <<terms, max_results, queries, debug_meta, filtered>>
    /\ UNCHANGED <<urlVars, filterVars, queryVars, callVars, envVars>>

\* lines 284-293: the debug listing subscripts every diagnostics entry
DebugKeys == {"mode", "dupe_filter", "returned", "query"}
DebugExpander ==
    /\ pc = "done"
    /\ pc' = IF \A i \in DOMAIN debug_meta : DebugKeys \subseteq DOMAIN debug_meta[i]
             THEN "listed" ELSE "keyerror"
    /\ UNCHANGED <<urlVars, filterVars, queryVars, sweepVars, callVars, envVars>>

Next ==
    \/ run_google_only \/ Attempt
    \/ PageException \/ PageMalformed \/ PageItems
    \/ Deliver \/ MergeStep \/ DebugExpander
Spec == InitSweep /\ [][Next]_vars

-----------------------------------------------------------------------------
(* Properties.                                                              *)

\* run_google_only has returned
Returned == pc \in {"done", "listed", "keyerror"}

\* C1: the list run_google_only returns has at most max_results records.
C1_AtMostMaxResults == Returned => Len(result) <= max_results

RawUrl(r) == Or(Or(Or(Get(r, "url"), Get(r, "link")), Get(r, "href")), "")
Malformed(r) ==
    \/ RawUrl(r) = ""
    \/ urlparse(RawUrl(r)).raises
    \/ urlparse(RawUrl(r)).netloc = ""

\* C2: only_playlist_results never raises, and a record whose url is
\* missing, empty, not a URL or unparsable is dropped while the rest of the
\* batch is emitted as if that record were absent.
C2_FilterNeverRaises ==
    fpc = "done" =>
        /\ ~fres.raises
        /\ fres.out = only_playlist_results(
                          SelectSeq(batch, LAMBDA r : ~Malformed(r))).out

AllCallsFailed == \A i \in DOMAIN reqlog : reqlog[i].resp.kind = "exception"

\* C3: when every provider call fails (or the credentials are absent),
\* run_google_only does not raise, makes every query/mode/filter attempt in
\* order, and returns no result and a non-empty diagnostics list whose
\* entries all carry a non-empty error.
C3_AllFailuresDegrade ==
    AllCallsFailed =>
        /\ pc # "raised"
        /\ merged = <<>>
        /\ \A i \in DOMAIN debug_meta : Truthy(Get(debug_meta[i], "error"))
        /\ Returned =>
            /\ result = <<>>
            /\ debug_meta # <<>>
            /\ Len(debug_meta) = 6 * Len(queries)
            /\ creds =>
                /\ Len(reqlog) = Len(debug_meta)
                /\ \A i \in DOMAIN debug_meta :
                    /\ debug_meta[i].query = queries[((i - 1) \div 6) + 1]
                    /\ debug_meta[i].mode = Modes[(((i - 1) \div 2) % 3) + 1]
                    /\ debug_meta[i].dupe_filter = Filters[((i - 1) % 2) + 1]

C3_Witness ==
    /\ Returned /\ creds /\ AllCallsFailed
    /\ Len(reqlog) = 18 /\ Len(debug_meta) = 18

NoDupUrls(s) == \A i, j \in DOMAIN s : i # j => s[i].url # s[j].url

\* the records of s whose url does not occur earlier in s, in order
RECURSIVE FirstSeen(_, _)
FirstSeen(s, urls) ==
    IF s = <<>> THEN <<>>
    ELSE IF Head(s).url \in urls THEN FirstSeen(Tail(s), urls)
    ELSE <<Head(s)>> \o FirstSeen(Tail(s), urls \cup {Head(s).url})

FedRecs == [i \in DOMAIN fed |-> fed[i].rec]

\* the first raw record whose canonical url is u
FirstRaw(raw, u) ==
    CHOOSE i \in DOMAIN raw :
        /\ canonical_spotify_url(RawUrl(raw[i])) = u
        /\ \A j \in 1..(i - 1) : canonical_spotify_url(RawUrl(raw[j])) # u

\* f holds one record per url, taken from the first raw record with that
\* url, in the order of those first records
FilterFirstWins(raw, f) ==
    /\ NoDupUrls(f)
    /\ \A j \in DOMAIN f :
        /\ \E i \in DOMAIN raw : canonical_spotify_url(RawUrl(raw[i])) = f[j].url
        /\ f[j].title = Or(Get(raw[FirstRaw(raw, f[j].url)], "title"), f[j].url)
        /\ f[j].snippet = Or(Get(raw[FirstRaw(raw, f[j].url)], "snippet"), "")
    /\ \A i, j \in DOMAIN f :
        i < j => FirstRaw(raw, f[i].url) < FirstRaw(raw, f[j].url)

\* C4: at every point of the merge sweep and in the returned list, and in
\* the output of one only_playlist_results call, no two records share a url,
\* records stand in the order their url was first seen, and a later record
\* with a seen url changes nothing.
C4_FirstSeenWins ==
    /\ NoDupUrls(merged)
    /\ merged = FirstSeen(FedRecs, {})
    /\ seen_urls = {merged[i].url : i \in DOMAIN merged}
    /\ Returned => result = merged
    /\ pc = "merging" =>
        /\ FilterFirstWins(ret.raw, filtered)
        /\ SubSeq(FedRecs, Len(fed) - k + 2, Len(fed)) = SubSeq(filtered, 1, k - 1)

C4_Witness ==
    /\ Returned
    /\ Len(merged) = 2
    /\ \E i, j \in DOMAIN fed :
        /\ i < j /\ fed[i].attempt < fed[j].attempt
        /\ fed[i].rec.url = fed[j].rec.url
        /\ fed[i].rec.title # fed[j].rec.title

\* C5: canonical_spotify_url(canonical_spotify_url(u)) = canonical_spotify_url(u).
C5_Idempotent == upc = "twice" => canon2 = canon1

Choose2(n) == (n * (n - 1)) \div 2
KeptCount  == Len(kept_terms(qterms))
PairQuery(a, b) ==
    "site:open.spotify.com inurl:playlist \"" \o a \o "\" \"" \o b \o "\""
QuotedAll(t) == JoinSpace([i \in DOMAIN t |-> "\"" \o t[i] \o "\""])
\* position of the pair (i, j), i < j, among the combinations of n terms
PairRank(n, i, j) == (i - 1) * n - Choose2(i) + (j - i)
\* the pairs (i, j) that are turned into a query
UsedPairs(n) ==
    IF n < 3 THEN {}
    ELSE {p \in (1..n) \X (1..n) : p[1] < p[2] /\ PairRank(n, p[1], p[2]) <= 10}
Distinct(s) == \A i, j \in DOMAIN s : i # j => s[i] # s[j]
IndexOf(s, x) == CHOOSE i \in DOMAIN s : s[i] = x
ThreeVariantsFirst ==
    LET t == kept_terms(qterms)
    IN  /\ Len(qout) >= 3
        /\ qout[1] = Strip("site:open.spotify.com inurl:playlist " \o QuotedAll(t))
        /\ qout[2] = Strip("site:open.spotify.com intitle:playlist " \o QuotedAll(t))
        /\ qout[3] = "site:open.spotify.com " \o QuotedAll(t) \o " \"playlist\""

C7_EarlyStop ==
    [][Len(merged) = max_results /\ pc # "start"
          => reqlog' = reqlog /\ merged' = merged]_vars

C8_Bounded ==
    /\ Len(reqlog) <= 10
    /\ \A i \in DOMAIN reqlog :
        /\ reqlog[i].params.start = 10 * (i - 1) + 1
        /\ reqlog[i].params.start <= 91
    /\ \A i \in 1..(Len(reqlog) - 1) :
        /\ reqlog[i].resp.kind = "json" /\ reqlog[i].resp.dict
        /\ page_items(reqlog[i].resp.data) # <<>>
        /\ reqlog[i].collected < wanted
    /\ pc = "returned" => Len(ret.raw) <= wanted

\* C8: paging one query ends; the start offsets are 1, 11, 21, ... up to 91
\* at most, no page is requested after a failed page, an empty page or once
\* `wanted` items are collected, and at most `wanted` items are returned.
C8_PagingTerminates == []C8_Bounded /\ <>(pc \in {"returned", "raised"})

C8_Witness ==
    /\ pc = "returned" /\ Len(reqlog) = 10
    /\ reqlog[10].params.start = 91 /\ Len(ret.raw) = 10 /\ wanted > 10

SearchMetaKeys == {"query", "mode", "dupe_filter", "totalResults", "returned", "error"}

\* C9: every diagnostics entry carries the six SearchMeta fields, so the
\* debug listing can read each entry.
C9_SixFields ==
    /\ \A i \in DOMAIN debug_meta : DOMAIN debug_meta[i] = SearchMetaKeys
    /\ pc # "keyerror"

HitError(a) ==
    \E i \in DOMAIN reqlog : reqlog[i].attempt = a /\ reqlog[i].resp.kind = "exception"

\* C10: an attempt that hit an error on any page contributes no record, its
\* earlier pages included; only attempts without an error contribute, and the
\* sweep goes on with the next attempt.
C10_FailedAttemptContributesNothing ==
    /\ \A i \in DOMAIN fed :
        /\ ~HitError(fed[i].attempt)
        /\ ~Truthy(Get(debug_meta[fed[i].attempt], "error"))
    /\ \A a \in DOMAIN debug_meta :
        creds => (HitError(a) <=> Truthy(Get(debug_meta[a], "error")))
    /\ pc = "raised" => ~HitError(reqlog[Len(reqlog)].attempt)
    /\ Returned =>
        \/ Len(debug_meta) = 6 * Len(queries)
        \/ /\ fed # <<>> /\ fed[Len(fed)].attempt = Len(debug_meta)
           /\ Len(merged) >= max_results

C10_Witness ==
    /\ Len(debug_meta) = 6 * Len(queries) /\ Returned
    /\ \E i, j \in DOMAIN reqlog :
        /\ i < j /\ reqlog[i].attempt = reqlog[j].attempt
        /\ reqlog[i].resp = RespOne /\ reqlog[j].resp = RespFail
    /\ \A i \in DOMAIN merged : merged[i].url # "https://open.spotify.com/playlist/X"

====
